---------------------------- MODULE Spec2Model ----------------------------
(***************************************************************************)
(* A model of tools/bg_setenv.c (EFI Boot Guard): the command line intake  *)
(* (parse_opt), the merge of the staged change into an environment record  *)
(* (update_environment) and the slot handling of main.                     *)
(*                                                                         *)
(* C strings are sequences of byte codes (0..255) without the final NUL.   *)
(* A uint32_t is a record [hi |-> upper 24 bits, lo |-> lowest byte]: the  *)
(* full width is kept and the lowest byte, the one the code compares with  *)
(* IGNORE_MARKER_BYTE, is directly visible.                                *)
(***************************************************************************)
EXTENDS Integers, Sequences, FiniteSets, TLC

(***************************************************************************)
(* Bounds of the model.                                                    *)
(***************************************************************************)
\* capacity of the two text fields, in characters (scaled down)
ENV_STRING_LENGTH == 2
\* number of command line words one invocation is given
MaxArgs == 2

(***************************************************************************)
(* Program constants.                                                      *)
(***************************************************************************)
IGNORE_MARKER_BYTE == 234
ENV_NUM_CONFIG_PARTS == 2
USTATE_MIN == 0
USTATE_UNKNOWN == 4
USTATE_MAX == 4

\* the null pointer
NULL == [null |-> TRUE]

(***************************************************************************)
(* uint32_t arithmetic on [hi, lo].                                        *)
(***************************************************************************)
Pow24 == 256 * 256 * 256

U32(h, l) == [hi |-> h, lo |-> l]

\* conversion of a C int to uint32_t (two's complement, modulo 2^32)
IntToU32(n) == [hi |-> (n \div 256) % Pow24, lo |-> n % 256]

\* x + 1 in uint32_t arithmetic
U32Inc(x) ==
  IF x.lo = 255 THEN [hi |-> (x.hi + 1) % Pow24, lo |-> 0]
  ELSE [hi |-> x.hi, lo |-> x.lo + 1]

U32Less(x, y) == x.hi < y.hi \/ (x.hi = y.hi /\ x.lo < y.lo)

\* (uint8_t) of a 16 bit or 32 bit value
LowByteOfUnit(u) == u % 256

(***************************************************************************)
(* Byte strings used on the command line.                                  *)
(***************************************************************************)
Rep(c, n) == [k \in 1..n |-> c]

ToUpper(c) == IF c \in 97..122 THEN c - 32 ELSE c

IsDigit(c) == c \in 48..57

\* "OK", "INSTALLED", "TESTING", "FAILED", "UNKNOWN"
ustatemap ==
  << <<79, 75>>,
     <<73, 78, 83, 84, 65, 76, 76, 69, 68>>,
     <<84, 69, 83, 84, 73, 78, 71>>,
     <<70, 65, 73, 76, 69, 68>>,
     <<85, 78, 75, 78, 79, 87, 78>> >>

\* strncasecmp(str, name, strlen(name)) == 0
PrefixMatch(str, name) ==
  /\ Len(str) >= Len(name)
  /\ \A k \in 1..Len(name) : ToUpper(str[k]) = ToUpper(name[k])

\* str2ustate: the first name in declared order that str starts with,
\* compared without case; i runs over USTATE_MIN .. USTATE_MAX - 1
str2ustate(str) ==
  IF str = NULL THEN USTATE_UNKNOWN
  ELSE LET hits == {i \in USTATE_MIN..(USTATE_MAX - 1) :
                      PrefixMatch(str, ustatemap[i + 1])}
       IN  IF hits = {} THEN USTATE_UNKNOWN
           ELSE CHOOSE i \in hits : \A j \in hits : i <= j

\* ustate2str: the name of a code in USTATE_MIN..USTATE_MAX; for any other
\* code the function ends without a return statement (no defined value)
ustate2str(ustate) ==
  IF ustate >= USTATE_MIN /\ ustate <= USTATE_MAX THEN ustatemap[ustate + 1]
  ELSE NULL

\* number of leading decimal digits of s from position k on
RECURSIVE DigitRun(_, _)
DigitRun(s, k) ==
  IF k > Len(s) \/ ~IsDigit(s[k]) THEN 0 ELSE 1 + DigitRun(s, k + 1)

RECURSIVE DigitsValue(_, _, _)
DigitsValue(s, k, n) ==
  IF n = 0 THEN 0
  ELSE DigitsValue(s, k, n - 1) * 10 + (s[k + n - 1] - 48)

\* strtol(arg, &tmp, 10) for the short inputs of the model: an optional
\* '-', then digits.  end = 0 stands for tmp == arg (nothing converted).
strtol(arg) ==
  LET neg == Len(arg) >= 1 /\ arg[1] = 45
      from == IF neg THEN 2 ELSE 1
      n == DigitRun(arg, from)
      v == DigitsValue(arg, from, n)
  IN  IF n = 0 THEN [val |-> 0, end |-> 0]
      ELSE [val |-> IF neg THEN 0 - v ELSE v, end |-> from - 1 + n]

\* the error test made after strtol in the 'p' and 's' cases; errno stays 0
\* for every input whose value fits a long
StrtolFailed(r) == r.end = 0


(***************************************************************************)
(* BG_ENVDATA.  The two text fields are arrays of ENV_STRING_LENGTH 16 bit *)
(* units, kernelparams directly after kernelfile, followed by the status   *)
(* byte, the two counters and the trailing crc32.                          *)
(***************************************************************************)
\* crc32 holds a value of the abstract checksum crc32(d) below; the marked
\* record's crc32 is never read.
BgEnvData(kf, kp, us, rev, wd, crc) ==
  [kernelfile |-> kf, kernelparams |-> kp, ustate |-> us, revision |-> rev,
   watchdog_timeout_sec |-> wd, crc32 |-> crc]

\* a 16 bit unit and a 32 bit value with every byte IGNORE_MARKER_BYTE
MarkerUnit == IGNORE_MARKER_BYTE * 256 + IGNORE_MARKER_BYTE

MarkerU32 ==
  U32((IGNORE_MARKER_BYTE * 256 + IGNORE_MARKER_BYTE) * 256 + IGNORE_MARKER_BYTE,
      IGNORE_MARKER_BYTE)

\* memset(&arguments.tmpdata, IGNORE_MARKER_BYTE, sizeof(BG_ENVDATA))
MarkedData ==
  BgEnvData(Rep(MarkerUnit, ENV_STRING_LENGTH), Rep(MarkerUnit, ENV_STRING_LENGTH),
            IGNORE_MARKER_BYTE, MarkerU32, MarkerU32, MarkerUnit)

\* memset(&data, 0, sizeof(BG_ENVDATA))
ZeroData ==
  BgEnvData(Rep(0, ENV_STRING_LENGTH), Rep(0, ENV_STRING_LENGTH),
            0, U32(0, 0), U32(0, 0), 0)

\* (uint16_t)c of a char c: bytes above 0x7F are sign extended (char is signed)
CharToUnit(c) == IF c >= 128 THEN 255 * 256 + c ELSE c

\* str8to16(buffer, arg): the units of arg followed by the terminating 0
str8to16(arg) == [k \in 1..(Len(arg) + 1) |->
                    IF k <= Len(arg) THEN CharToUnit(arg[k]) ELSE 0]

\* the checksum of zlib's crc32 over the bytes before the crc32 field,
\* abstracted to a running hash over the field values in layout order
RECURSIVE HashSeq(_, _)
HashSeq(h, s) ==
  IF s = <<>> THEN h ELSE HashSeq((h * 31 + Head(s)) % 65521, Tail(s))

crc32(d) ==
  HashSeq(1, d.kernelfile \o d.kernelparams \o
             <<d.ustate, d.watchdog_timeout_sec.hi, d.watchdog_timeout_sec.lo,
               d.revision.hi, d.revision.lo>>)

\* the five guarded memcpy calls of update_environment
CopySetFields(dest, src) ==
    [kernelfile |->
       IF LowByteOfUnit(src.kernelfile[1]) # IGNORE_MARKER_BYTE
       THEN src.kernelfile ELSE dest.kernelfile,
     kernelparams |->
       IF LowByteOfUnit(src.kernelparams[1]) # IGNORE_MARKER_BYTE
       THEN src.kernelparams ELSE dest.kernelparams,
     ustate |->
       IF src.ustate # IGNORE_MARKER_BYTE THEN src.ustate ELSE dest.ustate,
     revision |->
       IF src.revision.lo # IGNORE_MARKER_BYTE
       THEN src.revision ELSE dest.revision,
     watchdog_timeout_sec |->
       IF src.watchdog_timeout_sec.lo # IGNORE_MARKER_BYTE
       THEN src.watchdog_timeout_sec ELSE dest.watchdog_timeout_sec,
     crc32 |-> dest.crc32]

\* update_environment without the final recomputation of dest->crc32
update_environment_nocrc(dest, src) ==
  IF dest = NULL \/ src = NULL THEN dest ELSE CopySetFields(dest, src)

\* update_environment with a checksum that also runs over the crc32 field
\* found in dest
update_environment_crcall(dest, src) ==
  IF dest = NULL \/ src = NULL THEN dest
  ELSE LET d == CopySetFields(dest, src)
       IN  [d EXCEPT !.crc32 = HashSeq(crc32(d), <<dest.crc32>>)]

\* update_environment(dest, src): every field of src whose first byte is not
\* the marker is copied over dest, then dest->crc32 is recomputed
update_environment(dest, src) ==
  IF dest = NULL \/ src = NULL THEN dest
  ELSE LET d == CopySetFields(dest, src)
       IN  [d EXCEPT !.crc32 = crc32(d)]

\* str16to8 reads a text field up to the first 0 unit; a field without one
\* makes dump_env write past its buffer of ENV_STRING_LENGTH chars
Unterminated(units) == \A k \in 1..Len(units) : units[k] # 0

DumpOverflows(d) == Unterminated(d.kernelfile) \/ Unterminated(d.kernelparams)


(***************************************************************************)
(* parse_opt.  g is the state parse_opt works on: the struct arguments and *)
(* the file scope flags.  The result is the returned error code and the    *)
(* state it leaves.                                                        *)
(***************************************************************************)
Ret(err, g) == [e |-> err, g |-> g]

\* memcpy(field, str8to16(buffer, arg), strlen(arg) * 2 + 2) into a field of
\* ENV_STRING_LENGTH units: the units that fit
CopyText(field, w) ==
  [j \in 1..ENV_STRING_LENGTH |-> IF j <= Len(w) THEN w[j] ELSE field[j]]

\* case 'k': a text of exactly ENV_STRING_LENGTH characters passes the
\* length test and its terminating 0 is copied to the unit after kernelfile,
\* which is kernelparams[0]
parse_k(arg, g) ==
  IF Len(arg) > ENV_STRING_LENGTH THEN Ret(1, g)
  ELSE LET w == str8to16(arg)
           td == g.arguments.tmpdata
           td2 == [td EXCEPT
                     !.kernelfile = CopyText(@, w),
                     !.kernelparams =
                        IF Len(w) > ENV_STRING_LENGTH
                        THEN [@ EXCEPT ![1] = w[ENV_STRING_LENGTH + 1]]
                        ELSE @]
       IN  Ret(0, [g EXCEPT !.arguments.tmpdata = td2])

\* case 'a': as case 'k'; the terminating 0 of a text of exactly
\* ENV_STRING_LENGTH characters is copied to the two bytes after
\* kernelparams, the status byte among them
parse_a(arg, g) ==
  IF Len(arg) > ENV_STRING_LENGTH THEN Ret(1, g)
  ELSE LET w == str8to16(arg)
           td == g.arguments.tmpdata
           td2 == [td EXCEPT
                     !.kernelparams = CopyText(@, w),
                     !.ustate = IF Len(w) > ENV_STRING_LENGTH THEN 0 ELSE @]
       IN  Ret(0, [g EXCEPT !.arguments.tmpdata = td2])

\* case 'p'
parse_p(arg, g) ==
  LET r == strtol(arg)
  IN  IF StrtolFailed(r) THEN Ret(1, g)
      ELSE IF r.val = 0 \/ r.val = 1
           THEN Ret(0, [g EXCEPT !.arguments.which_part = r.val,
                                 !.part_specified = TRUE])
           ELSE Ret(1, g)

\* case 's'
parse_s(arg, g) ==
  LET r == strtol(arg)
      i == IF StrtolFailed(r) THEN str2ustate(arg) ELSE r.val
  IN  IF StrtolFailed(r) /\ i = USTATE_UNKNOWN THEN Ret(1, g)
      ELSE IF i < 0 \/ i > 3 THEN Ret(1, g)
           ELSE Ret(0, [g EXCEPT !.arguments.tmpdata.ustate = i])

\* case 'r': atoi, stored in the uint32_t revision
parse_r(arg, g) ==
  Ret(0, [g EXCEPT !.arguments.tmpdata.revision = IntToU32(strtol(arg).val)])

\* case 'w'
parse_w(arg, g) ==
  LET i == strtol(arg).val
  IN  IF i # 0
      THEN Ret(0, [g EXCEPT !.arguments.tmpdata.watchdog_timeout_sec = IntToU32(i)])
      ELSE Ret(1, g)

\* case 'f': asprintf(&envfilepath, "%s/%s", arg, FAT_ENV_FILENAME)
parse_f(arg, g) ==
  Ret(0, [g EXCEPT !.arguments.output_to_file = TRUE,
                   !.envfilepath = <<arg, "FAT_ENV_FILENAME">>])

\* case 'c'
parse_c(arg, g) == Ret(0, [g EXCEPT !.arguments.tmpdata.ustate = 0])

\* case 'u'
parse_u(arg, g) ==
  IF g.part_specified THEN Ret(1, g)
  ELSE Ret(0, [g EXCEPT !.auto_update = TRUE])

\* case 'v'
parse_v(arg, g) == Ret(0, [g EXCEPT !.verbosity = TRUE])

parse_opt(key, arg, g) ==
  CASE key = "k" -> parse_k(arg, g)
    [] key = "a" -> parse_a(arg, g)
    [] key = "p" -> parse_p(arg, g)
    [] key = "s" -> parse_s(arg, g)
    [] key = "r" -> parse_r(arg, g)
    [] key = "w" -> parse_w(arg, g)
    [] key = "f" -> parse_f(arg, g)
    [] key = "c" -> parse_c(arg, g)
    [] key = "u" -> parse_u(arg, g)
    [] key = "v" -> parse_v(arg, g)

(***************************************************************************)
(* The command line words the model draws from.                            *)
(***************************************************************************)
\* "k", a text starting with the marker byte, a text of exactly the
\* capacity, a text one character too long
KArgs == {<<107>>, <<IGNORE_MARKER_BYTE>>, Rep(107, ENV_STRING_LENGTH),
          Rep(107, ENV_STRING_LENGTH + 1)}
AArgs == {<<113>>, Rep(113, ENV_STRING_LENGTH), Rep(113, ENV_STRING_LENGTH + 1)}
\* "0", "1", "2", "x"
PArgs == {<<48>>, <<49>>, <<50>>, <<120>>}
\* "2", "7", "testing", "bogus"
SArgs == {<<50>>, <<55>>, <<116, 101, 115, 116, 105, 110, 103>>,
          <<98, 111, 103, 117, 115>>}
\* "7", "234"
RArgs == {<<55>>, <<50, 51, 52>>}
\* "0", "30", "234"
WArgs == {<<48>>, <<51, 48>>, <<50, 51, 52>>}
\* "d"
FArgs == {<<100>>}
NoArg == <<>>

SetenvKeys == {"k", "a", "p", "r", "s", "f", "w", "c", "u", "v"}
PrintenvKeys == {"v"}


(***************************************************************************)
(* The slot store behind bgenv_init, bgenv_get_by_index, bgenv_get_latest, *)
(* bgenv_get_oldest, bgenv_write and bgenv_close.                          *)
(***************************************************************************)
Parts == 0..(ENV_NUM_CONFIG_PARTS - 1)

\* a text as it is held in a text field: its units, then zeros
TextField(t) ==
  [j \in 1..ENV_STRING_LENGTH |-> IF j <= Len(t) THEN CharToUnit(t[j]) ELSE 0]

finalize(d) == [d EXCEPT !.crc32 = crc32(d)]

\* the revisions of slot 0 and slot 1 the store may hold at the start
InitialRevisions ==
  { <<U32(0, 5), U32(0, 2)>>,
    <<U32(0, 233), U32(0, 7)>>,
    <<U32(0, 4), U32(0, 4)>>,
    <<U32(0, 3), U32(Pow24 - 1, 255)>> }

InitialSlots(revs) ==
  [i \in Parts |->
     finalize(BgEnvData(TextField(<<108 + i>>), TextField(<<114 + i>>),
                        2 - i, revs[i + 1], U32(0, 10 * (i + 1)), 0))]

\* Latest: maximum revision, the lowest index among equals
LatestPart(sl) ==
  CHOOSE i \in Parts :
    \A j \in Parts : /\ ~U32Less(sl[i].revision, sl[j].revision)
                     /\ (sl[j].revision = sl[i].revision => i <= j)

\* Oldest: a slot of minimum revision
OldestParts(sl) ==
  {i \in Parts : \A j \in Parts : ~U32Less(sl[j].revision, sl[i].revision)}

\* an open slot: the index it was read from and its in-memory record
Handle(i, d) == [idx |-> i, data |-> d]

(***************************************************************************)
(* State.                                                                  *)
(***************************************************************************)
VARIABLES
  pc,             \* position in main
  write_mode,     \* argv[0] contains "bg_setenv"
  argv,           \* the command line words consumed so far: <<key, arg>>
  arguments,      \* struct arguments: output_to_file, which_part, tmpdata
  auto_update, part_specified, verbosity, envfilepath,
  e,              \* the result of argp_parse
  result,         \* the exit code, once pc = "exit"
  i,              \* the index of the scan loop
  env, env_current, env_new,   \* slot handles of main, NULL or a Handle
  slots,          \* the store: the record of every slot
  outfile,        \* the content of the output file, NULL while not written
  data,           \* the record of output-to-file mode, NULL before it is made
  ops             \* the store and file operations performed: [op, part, ok]

vars == <<pc, write_mode, argv, arguments, auto_update, part_specified,
          verbosity, envfilepath, e, result, i, env, env_current, env_new,
          slots, outfile, data, ops>>

globals == <<arguments, auto_update, part_specified, verbosity, envfilepath>>
handles == <<env, env_current, env_new>>

G == [arguments |-> arguments, auto_update |-> auto_update,
      part_specified |-> part_specified, verbosity |-> verbosity,
      envfilepath |-> envfilepath]

SetG(g) ==
  /\ arguments' = g.arguments
  /\ auto_update' = g.auto_update
  /\ part_specified' = g.part_specified
  /\ verbosity' = g.verbosity
  /\ envfilepath' = g.envfilepath

\* part is the slot the operation is about, NoPart when it names none
NoPart == 0 - 1

Op(op, part, ok) == [op |-> op, part |-> part, ok |-> ok]

Log(op, part, ok) == ops' = Append(ops, Op(op, part, ok))

Exit(code) == pc' = "exit" /\ result' = code

\* exit status of argp_usage and of argp's own errors (EX_USAGE), and of a
\* process ended by SIGABRT or SIGSEGV
EX_USAGE == 64
Crashed == 128 + 6

\* main up to the call of argp_parse
Init ==
  /\ pc = "argp"
  /\ write_mode \in BOOLEAN
  /\ argv = <<>>
  /\ arguments = [output_to_file |-> FALSE, which_part |-> 0,
                  tmpdata |-> MarkedData]
  /\ auto_update = FALSE
  /\ part_specified = FALSE
  /\ verbosity = ~write_mode
  /\ envfilepath = NULL
  /\ e = 0
  /\ result = 0
  /\ i = 0
  /\ env = NULL /\ env_current = NULL /\ env_new = NULL
  /\ \E revs \in InitialRevisions : slots = InitialSlots(revs)
  /\ outfile = NULL
  /\ data = NULL
  /\ ops = <<>>

(***************************************************************************)
(* argp_parse: one call of parse_opt for each option of the command line.  *)
(***************************************************************************)
\* main always taking argp_setenv, whatever the name of the tool
Keys_setenv == SetenvKeys

\* the option table handed to argp_parse: options_setenv for bg_setenv,
\* options_printenv for every other name
Keys == IF write_mode THEN SetenvKeys ELSE PrintenvKeys

\* argp_parse hands option key with argument arg to parse_opt; an error
\* returned by parse_opt ends argp_parse with that error
Option(key, arg) ==
  /\ pc = "argp"
  /\ Len(argv) < MaxArgs
  /\ key \in Keys
  /\ LET r == parse_opt(key, arg, G)
     IN  /\ SetG(r.g)
         /\ e' = r.e
         /\ pc' = IF r.e # 0 THEN "parsed" ELSE "argp"
  /\ argv' = Append(argv, <<key, arg>>)
  /\ UNCHANGED <<write_mode, result, i, handles, slots, outfile, data, ops>>

ParseK == \E arg \in KArgs : Option("k", arg)
ParseA == \E arg \in AArgs : Option("a", arg)
ParseP == \E arg \in PArgs : Option("p", arg)
ParseS == \E arg \in SArgs : Option("s", arg)
ParseR == \E arg \in RArgs : Option("r", arg)
ParseW == \E arg \in WArgs : Option("w", arg)
ParseF == \E arg \in FArgs : Option("f", arg)
ParseC == Option("c", NoArg)
ParseU == Option("u", NoArg)
ParseV == Option("v", NoArg)

\* case 'k' and case 'a' with a text of exactly ENV_STRING_LENGTH
\* characters: str8to16 writes ENV_STRING_LENGTH + 1 units to the local
\* buffer[ENV_STRING_LENGTH]; the write past the array may end the process
ParseTextOverflow ==
  /\ pc = "argp"
  /\ Len(argv) < MaxArgs
  /\ \E w \in ({"k"} \X KArgs) \cup ({"a"} \X AArgs) :
       /\ w[1] \in Keys
       /\ Len(w[2]) = ENV_STRING_LENGTH
       /\ argv' = Append(argv, w)
  /\ Exit(Crashed)
  /\ UNCHANGED <<write_mode, globals, e, i, handles, slots, outfile, data, ops>>

\* case ARGP_KEY_ARG (a word that is no option) calls argp_usage, and an
\* option that is not in the table of the tool is refused by argp: both
\* end the process
ArgpUsage ==
  /\ pc = "argp"
  /\ Len(argv) < MaxArgs
  /\ \E key \in {"ARG"} \cup (SetenvKeys \ Keys) :
       argv' = Append(argv, <<key, NoArg>>)
  /\ Exit(EX_USAGE)
  /\ UNCHANGED <<write_mode, globals, e, i, handles, slots, outfile, data, ops>>

\* the command line is used up: argp_parse returns 0
ArgpEnd ==
  /\ pc = "argp"
  /\ e' = 0
  /\ pc' = "parsed"
  /\ UNCHANGED <<write_mode, argv, globals, result, i, handles, slots,
                 outfile, data, ops>>


(***************************************************************************)
(* main after argp_parse.                                                  *)
(***************************************************************************)
\* if (e = argp_parse(...)) return e; with the test of e left out
AfterParse_ignore(err, to_file) == IF to_file THEN "file" ELSE "init"

\* main without the test of arguments.output_to_file
AfterParse_nofile(err, to_file) == IF err # 0 THEN "exit" ELSE "init"

\* where main goes after argp_parse returned err
AfterParse(err, to_file) ==
  IF err # 0 THEN "exit" ELSE IF to_file THEN "file" ELSE "init"

MainAfterParse ==
  /\ pc = "parsed"
  /\ pc' = AfterParse(e, arguments.output_to_file)
  /\ result' = IF pc' = "exit" THEN e ELSE result
  /\ UNCHANGED <<write_mode, argv, globals, e, i, handles, slots, outfile, data, ops>>

\* bgenv_init(BGENVTYPE_FAT)
BgenvInit ==
  /\ pc = "init"
  /\ \E ok \in BOOLEAN :
       /\ Log("init", NoPart, ok)
       /\ IF ok THEN pc' = "scan" /\ result' = result ELSE Exit(1)
  /\ i' = 0
  /\ UNCHANGED <<write_mode, argv, globals, e, handles, slots, outfile, data>>

\* the loop going on to the next partition when one cannot be read
ScanOpen_goon ==
  /\ pc = "scan"
  /\ i < ENV_NUM_CONFIG_PARTS
  /\ \E ok \in BOOLEAN :
       /\ ops' = ops \o (IF ok /\ verbosity
                         THEN <<Op("open", i, TRUE), Op("dump", i, TRUE)>>
                         ELSE <<Op("open", i, ok)>>)
       /\ IF ok
          THEN /\ env' = Handle(i, slots[i])
               /\ pc' = "scanclose"
               /\ UNCHANGED <<i, result>>
          ELSE /\ env' = NULL
               /\ i' = i + 1
               /\ IF i + 1 < ENV_NUM_CONFIG_PARTS
                  THEN pc' = "scan" /\ result' = result
                  ELSE IF write_mode THEN pc' = "select" /\ result' = result
                       ELSE Exit(result)
  /\ UNCHANGED <<write_mode, argv, globals, e, env_current, env_new,
                 slots, outfile, data>>

\* the loop over all config partitions: bgenv_get_by_index(BGENVTYPE_FAT, i)
\* and, if verbose, dump_env(env->data)
ScanOpen ==
  /\ pc = "scan"
  /\ i < ENV_NUM_CONFIG_PARTS
  /\ \E ok \in BOOLEAN :
       /\ ops' = ops \o (IF ok /\ verbosity
                         THEN <<Op("open", i, TRUE), Op("dump", i, TRUE)>>
                         ELSE <<Op("open", i, ok)>>)
       /\ IF ok
          THEN /\ env' = Handle(i, slots[i])
               /\ pc' = "scanclose"
               /\ result' = result
          ELSE /\ env' = NULL
               /\ Exit(1)
  /\ UNCHANGED <<write_mode, argv, globals, e, i, env_current, env_new,
                 slots, outfile, data>>

\* the loop body without its bgenv_close(env)
ScanClose_noclose ==
  /\ pc = "scanclose"
  /\ env' = NULL
  /\ i' = i + 1
  /\ IF i + 1 < ENV_NUM_CONFIG_PARTS
     THEN pc' = "scan" /\ result' = result
     ELSE IF write_mode THEN pc' = "select" /\ result' = result
          ELSE Exit(result)
  /\ UNCHANGED <<write_mode, argv, globals, e, env_current, env_new, slots,
                 outfile, data, ops>>

\* bgenv_close(env) at the end of the loop body; its result is not looked at
ScanClose ==
  /\ pc = "scanclose"
  /\ \E ok \in BOOLEAN : Log("close", env.idx, ok)
  /\ env' = NULL
  /\ i' = i + 1
  /\ IF i + 1 < ENV_NUM_CONFIG_PARTS
     THEN pc' = "scan" /\ result' = result
     ELSE IF write_mode THEN pc' = "select" /\ result' = result
          ELSE Exit(result)
  /\ UNCHANGED <<write_mode, argv, globals, e, env_current, env_new, slots,
                 outfile, data>>

\* auto update: env_current = bgenv_get_latest(BGENVTYPE_FAT) and
\* arguments.tmpdata.revision = env_current->data->revision + 1
GetLatest ==
  /\ pc = "select"
  /\ auto_update
  /\ \E ok \in BOOLEAN :
       /\ Log("open", IF ok THEN LatestPart(slots) ELSE NoPart, ok)
       /\ IF ok
          THEN LET l == LatestPart(slots)
               IN  /\ env_current' = Handle(l, slots[l])
                   /\ arguments' = [arguments EXCEPT !.tmpdata.revision =
                                      U32Inc(slots[l].revision)]
                   /\ pc' = "oldest"
                   /\ result' = result
          ELSE /\ Exit(1)
               /\ UNCHANGED <<env_current, arguments>>
  /\ UNCHANGED <<write_mode, argv, auto_update, part_specified, verbosity,
                 envfilepath, e, i, env, env_new, slots, outfile, data>>

\* auto update: env_new = bgenv_get_oldest(BGENVTYPE_FAT), then
\* memcpy(env_new->data, env_current->data, sizeof(BG_ENVDATA)); a failure
\* returns 1 with env_current still open
GetOldest ==
  /\ pc = "oldest"
  /\ \E ok \in BOOLEAN :
       IF ok
       THEN \E o \in OldestParts(slots) :
              /\ Log("open", o, TRUE)
              /\ env_new' = Handle(o, env_current.data)
              /\ pc' = "closecurrent"
              /\ result' = result
       ELSE /\ Log("open", NoPart, FALSE)
            /\ Exit(1)
            /\ env_new' = env_new
  /\ UNCHANGED <<write_mode, argv, globals, e, i, env, env_current, slots,
                 outfile, data>>

\* auto update: bgenv_close(env_current); a failure is reported and main
\* goes on
CloseCurrent ==
  /\ pc = "closecurrent"
  /\ \E ok \in BOOLEAN : Log("close", env_current.idx, ok)
  /\ env_current' = NULL
  /\ pc' = "update"
  /\ UNCHANGED <<write_mode, argv, globals, e, result, i, env, env_new,
                 slots, outfile, data>>

\* no auto update: bgenv_get_by_index(BGENVTYPE_FAT, arguments.which_part)
\* if a partition was given, bgenv_get_latest(BGENVTYPE_FAT) otherwise
GetTarget ==
  /\ pc = "select"
  /\ ~auto_update
  /\ LET t == IF part_specified THEN arguments.which_part
              ELSE LatestPart(slots)
     IN  \E ok \in BOOLEAN :
           /\ Log("open", IF ok \/ part_specified THEN t ELSE NoPart, ok)
           /\ IF ok
              THEN /\ env_new' = Handle(t, slots[t])
                   /\ pc' = "update"
                   /\ result' = result
              ELSE /\ env_new' = env_new
                   /\ Exit(1)
  /\ UNCHANGED <<write_mode, argv, globals, e, i, env, env_current, slots,
                 outfile, data>>

\* update_environment(env_new->data, &arguments.tmpdata) and, if verbose,
\* dump_env(env_new->data)
UpdateEnv ==
  /\ pc = "update"
  /\ env_new' = [env_new EXCEPT
                   !.data = update_environment(@, arguments.tmpdata)]
  /\ pc' = "write"
  /\ UNCHANGED <<write_mode, argv, globals, e, result, i, env, env_current,
                 slots, outfile, data, ops>>

\* bgenv_write(env_new); a failure returns 1 with env_new still open
BgenvWrite ==
  /\ pc = "write"
  /\ \E ok \in BOOLEAN :
       /\ Log("write", env_new.idx, ok)
       /\ IF ok
          THEN /\ slots' = [slots EXCEPT ![env_new.idx] = env_new.data]
               /\ pc' = "close"
               /\ result' = result
          ELSE /\ slots' = slots
               /\ Exit(1)
  /\ UNCHANGED <<write_mode, argv, globals, e, i, handles, outfile, data>>

\* bgenv_close(env_new), then return result
CloseNew ==
  /\ pc = "close"
  /\ \E ok \in BOOLEAN :
       /\ Log("close", env_new.idx, ok)
       /\ Exit(IF ok THEN result ELSE 1)
  /\ env_new' = NULL
  /\ UNCHANGED <<write_mode, argv, globals, e, i, env, env_current, slots,
                 outfile, data>>


\* dump_env(env_new->data) when verbose: a text field without a 0 unit makes
\* str16to8 write past buffer[ENV_STRING_LENGTH]; the write past the array
\* may end the process
DumpEnvOverflow ==
  /\ verbosity
  /\ \/ /\ pc = "update"
        /\ DumpOverflows(update_environment(env_new.data, arguments.tmpdata))
        /\ env_new' = [env_new EXCEPT
                         !.data = update_environment(@, arguments.tmpdata)]
        /\ data' = data
     \/ /\ pc = "file"
        /\ DumpOverflows(update_environment(ZeroData, arguments.tmpdata))
        /\ data' = update_environment(ZeroData, arguments.tmpdata)
        /\ env_new' = env_new
  /\ Exit(Crashed)
  /\ UNCHANGED <<write_mode, argv, globals, e, i, env, env_current,
                 slots, outfile, ops>>

(***************************************************************************)
(* Output to file: arguments.output_to_file is set.                        *)
(***************************************************************************)
\* errno after a failed fwrite
ENOSPC == 28

\* memset(&data, 0, sizeof(BG_ENVDATA)); update_environment(&data, ...)
FileUpdate ==
  /\ pc = "file"
  /\ data' = update_environment(ZeroData, arguments.tmpdata)
  /\ pc' = "fopen"
  /\ UNCHANGED <<write_mode, argv, globals, e, result, i, handles, slots,
                 outfile, ops>>

\* fopen(envfilepath, "wb")
FileOpen ==
  /\ pc = "fopen"
  /\ \E ok \in BOOLEAN :
       /\ Log("fopen", NoPart, ok)
       /\ IF ok THEN pc' = "fwrite" /\ result' = result ELSE Exit(1)
  /\ UNCHANGED <<write_mode, argv, globals, e, i, handles, slots, outfile,
                 data>>

\* fwrite(&data, sizeof(BG_ENVDATA), 1, of)
FileWrite ==
  /\ pc = "fwrite"
  /\ \E ok \in BOOLEAN :
       /\ Log("fwrite", NoPart, ok)
       /\ outfile' = IF ok THEN data ELSE outfile
       /\ result' = IF ok THEN result ELSE ENOSPC
  /\ pc' = "fclose"
  /\ UNCHANGED <<write_mode, argv, globals, e, i, handles, slots, data>>

\* fclose(of), then return result
FileClose ==
  /\ pc = "fclose"
  /\ \E ok \in BOOLEAN :
       /\ Log("fclose", NoPart, ok)
       /\ Exit(IF ok THEN result ELSE 1)
  /\ UNCHANGED <<write_mode, argv, globals, e, i, handles, slots, outfile,
                 data>>

Next ==
  \/ ParseK \/ ParseA \/ ParseP \/ ParseS \/ ParseR \/ ParseW \/ ParseF
  \/ ParseC \/ ParseU \/ ParseV
  \/ ParseTextOverflow \/ ArgpUsage \/ ArgpEnd
  \/ MainAfterParse
  \/ BgenvInit \/ ScanOpen \/ ScanClose
  \/ GetLatest \/ GetOldest \/ CloseCurrent \/ GetTarget
  \/ UpdateEnv \/ DumpEnvOverflow \/ BgenvWrite \/ CloseNew
  \/ FileUpdate \/ FileOpen \/ FileWrite \/ FileClose

Spec == Init /\ [][Next]_vars


(***************************************************************************)
(* Vocabulary of the properties.                                           *)
(***************************************************************************)
HasKey(key) == \E j \in 1..Len(argv) : argv[j][1] = key

LastOpt == argv[Len(argv)]

\* the option parsed last was accepted and intake is still running
LastAccepted == pc = "argp" /\ argv # <<>>

\* the text a field holds: its units before the first 0
FieldText(units) ==
  LET zeros == {k \in 1..Len(units) : units[k] = 0}
      n == IF zeros = {} THEN Len(units)
           ELSE (CHOOSE k \in zeros : \A z \in zeros : k <= z) - 1
  IN  [k \in 1..n |-> units[k]]

UnitsOf(arg) == [k \in 1..Len(arg) |-> CharToUnit(arg[k])]

\* atoi(arg)
atoi(arg) == strtol(arg).val

StoreOpNames == {"init", "open", "write", "close"}

StoreOps == SelectSeq(ops, LAMBDA o : o.op \in StoreOpNames)

\* the records a staged change may be merged onto
MergeTargets == {slots[p] : p \in Parts} \cup {ZeroData}

\* the step in which bgenv_write stores env_new
WriteStep == pc = "write" /\ pc' = "close"

(***************************************************************************)
(* C1: a command line with both -p and -u, in either order, ends intake    *)
(* with a validation error and performs no store operation.                *)
(***************************************************************************)
C1_ConflictRejected ==
  (HasKey("p") /\ HasKey("u")) => (e # 0 /\ StoreOps = <<>>)

(***************************************************************************)
(* C2: a successful write of an invocation given both -c and -s, in either *)
(* order, stores ustate = 0.                                               *)
(***************************************************************************)
C2_ConfirmWins ==
  (pc = "close" /\ HasKey("c") /\ HasKey("s"))
     => slots[env_new.idx].ustate = 0

(***************************************************************************)
(* C3: a successful auto update writes to the oldest slot a record whose   *)
(* revision is the latest slot's revision + 1, whose fields given by a     *)
(* flag hold the flag's value and whose other fields hold the latest       *)
(* slot's values from before the invocation.                               *)
(***************************************************************************)
C3_AutoUpdateCarryForward ==
  [][(WriteStep /\ auto_update) =>
       LET L == slots[LatestPart(slots)]
           W == slots'[env_new.idx]
       IN  /\ env_new.idx \in OldestParts(slots)
           /\ W.revision = U32Inc(L.revision)
           /\ FieldText(W.kernelfile) =
                IF HasKey("k")
                THEN UnitsOf((CHOOSE o \in {argv[j] : j \in 1..Len(argv)} :
                                o[1] = "k")[2])
                ELSE FieldText(L.kernelfile)
           /\ FieldText(W.kernelparams) =
                IF HasKey("a")
                THEN UnitsOf((CHOOSE o \in {argv[j] : j \in 1..Len(argv)} :
                                o[1] = "a")[2])
                ELSE FieldText(L.kernelparams)
           /\ (~HasKey("s") /\ ~HasKey("c") => W.ustate = L.ustate)
           /\ (HasKey("c") => W.ustate = 0)
           /\ (~HasKey("w") => W.watchdog_timeout_sec = L.watchdog_timeout_sec)
           /\ (HasKey("w") => W.watchdog_timeout_sec =
                 IntToU32(atoi((CHOOSE o \in {argv[j] : j \in 1..Len(argv)} :
                                  o[1] = "w")[2])))
    ]_vars

(***************************************************************************)
(* C4: the revision a successful auto update writes is strictly greater    *)
(* than the revision of every slot before the invocation, and the slot     *)
(* written is the latest slot afterwards.  Stated for a latest revision    *)
(* below 2^32 - 1, where the + 1 does not wrap to 0.                       *)
(***************************************************************************)
U32Max == U32(Pow24 - 1, 255)

C4_RevisionStrictlyIncreases ==
  [][(WriteStep /\ auto_update /\ slots[LatestPart(slots)].revision # U32Max) =>
       /\ \A p \in Parts :
            U32Less(slots[p].revision, slots'[env_new.idx].revision)
       /\ LatestPart(slots') = env_new.idx
    ]_vars

(***************************************************************************)
(* C5: every flag value intake accepts leaves its field of the staged      *)
(* change set, and the merge overwrites that field of any target with      *)
(* exactly the value given.  Stated for texts of ASCII characters, the     *)
(* ones the comment on IGNORE_MARKER_BYTE names as used.                   *)
(***************************************************************************)
IsAscii(arg) == \A k \in 1..Len(arg) : arg[k] < 128

C5_AcceptedValueIsStaged ==
  LastAccepted =>
    LET key == LastOpt[1]
        arg == LastOpt[2]
    IN  \A r \in MergeTargets :
          LET m == update_environment(r, arguments.tmpdata)
          IN  /\ (key = "k" /\ IsAscii(arg))
                    => FieldText(m.kernelfile) = UnitsOf(arg)
              /\ (key = "a" /\ IsAscii(arg))
                    => FieldText(m.kernelparams) = UnitsOf(arg)
              /\ key = "r" => m.revision = IntToU32(atoi(arg))
              /\ key = "w" => m.watchdog_timeout_sec = IntToU32(atoi(arg))
              /\ key = "s" => m.ustate =
                                IF StrtolFailed(strtol(arg))
                                THEN str2ustate(arg) ELSE atoi(arg)

(***************************************************************************)
(* C6: the merge of the change staged by intake leaves every field for     *)
(* which no flag was given as it is in the target, and the merge of the    *)
(* change of an empty command line is finalize.                            *)
(***************************************************************************)
C6_UnstagedFieldsKept ==
  (pc \in {"argp", "parsed"} /\ e = 0) =>
    \A r \in MergeTargets :
      LET m == update_environment(r, arguments.tmpdata)
      IN  /\ ~HasKey("k") => m.kernelfile = r.kernelfile
          /\ ~HasKey("a") => m.kernelparams = r.kernelparams
          /\ (~HasKey("s") /\ ~HasKey("c")) => m.ustate = r.ustate
          /\ ~HasKey("r") => m.revision = r.revision
          /\ ~HasKey("w") => m.watchdog_timeout_sec = r.watchdog_timeout_sec
          /\ argv = <<>> => m = finalize(r)

(***************************************************************************)
(* C7: every record handed to bgenv_write, stored in a slot or written to  *)
(* the output file carries the checksum of its other fields.               *)
(***************************************************************************)
C7_WrittenRecordIsFinalized ==
  /\ pc = "write" => env_new.data.crc32 = crc32(env_new.data)
  /\ \A p \in Parts : slots[p].crc32 = crc32(slots[p])
  /\ pc \in {"fopen", "fwrite", "fclose"} => data.crc32 = crc32(data)
  /\ outfile # NULL => outfile.crc32 = crc32(outfile)

\* an auto update has stored a record with a staged kernel file
C7_Witness ==
  /\ pc = "close"
  /\ auto_update
  /\ HasKey("k")
  /\ slots[env_new.idx].kernelfile[1] = 107
  /\ slots[env_new.idx].crc32 = crc32(slots[env_new.idx])

(***************************************************************************)
(* C8: when main returns, every slot opened in the invocation has been     *)
(* closed.                                                                 *)
(***************************************************************************)
C8_AllSlotsClosedAtExit ==
  (pc = "exit" /\ result # Crashed)
     => (env = NULL /\ env_current = NULL /\ env_new = NULL)

(***************************************************************************)
(* C9: a failed store operation is the last store operation of the         *)
(* invocation and makes the exit code non-zero.                            *)
(***************************************************************************)
C9_StoreFailureAborts ==
  /\ \A k \in 1..Len(StoreOps) : ~StoreOps[k].ok => k = Len(StoreOps)
  /\ (pc = "exit" /\ result = 0) => \A k \in 1..Len(StoreOps) : StoreOps[k].ok

(***************************************************************************)
(* C10: once intake has reported a validation error, the invocation ends   *)
(* with that error and performs no store or file operation.                *)
(***************************************************************************)
C10_ValidationErrorBeforeIO ==
  e # 0 =>
    /\ ops = <<>>
    /\ pc \in {"parsed", "exit"}
    /\ pc = "exit" => result = e
    /\ env = NULL /\ env_current = NULL /\ env_new = NULL
    /\ outfile = NULL

\* main has returned the error of a zero watchdog timeout
C10_Witness ==
  /\ pc = "exit"
  /\ e # 0
  /\ LastOpt = <<"w", <<48>>>>
  /\ ops = <<>>

\* the argument of the last option key of the command line
LastArgOf(key) ==
  argv[CHOOSE j \in 1..Len(argv) :
         /\ argv[j][1] = key
         /\ \A j2 \in (j + 1)..Len(argv) : argv[j2][1] # key][2]

SuccessfulWrites(log) == SelectSeq(log, LAMBDA o : o.op = "write" /\ o.ok)

(***************************************************************************)
(* C11: a successful write mode invocation on the slot store writes        *)
(* exactly one slot and leaves every other slot as it was; the slot        *)
(* written is the one given with -p, the oldest one when -u is given, the  *)
(* latest one when neither is given.                                       *)
(***************************************************************************)
C11_ExactlyOneSlotWritten ==
  [][/\ WriteStep =>
          /\ \A p \in Parts \ {env_new.idx} : slots'[p] = slots[p]
          /\ SuccessfulWrites(ops) = <<>>
          /\ HasKey("p") => env_new.idx = strtol(LastArgOf("p")).val
          /\ HasKey("u") => env_new.idx \in OldestParts(slots)
          /\ (~HasKey("p") /\ ~HasKey("u")) => env_new.idx = LatestPart(slots)
     /\ (pc # "exit" /\ pc' = "exit" /\ result' = 0 /\ write_mode
           /\ ~arguments.output_to_file)
          => Len(SuccessfulWrites(ops')) = 1
    ]_vars

(***************************************************************************)
(* C12: with -f, whatever other flags are given, no store operation is     *)
(* performed and no slot is opened or changed, and the record written to   *)
(* the file is the staged change merged onto an all-zero record and        *)
(* finalized.                                                              *)
(***************************************************************************)
C12_FileModeLeavesStoreAlone ==
  /\ arguments.output_to_file =>
       /\ StoreOps = <<>>
       /\ env = NULL /\ env_current = NULL /\ env_new = NULL
       /\ \E revs \in InitialRevisions : slots = InitialSlots(revs)
  /\ outfile # NULL =>
       /\ arguments.output_to_file
       /\ outfile = finalize(CopySetFields(ZeroData, arguments.tmpdata))

\* a file was written by an invocation that also asked for auto update
C12_Witness ==
  /\ outfile # NULL
  /\ auto_update
  /\ pc = "exit"
  /\ result = 0


(***************************************************************************)
(* C13: the read-only variant of the tool (any name other than bg_setenv)  *)
(* never writes or changes a slot: it only opens, dumps and closes each    *)
(* slot in turn, and its command line can set no staged field, no slot     *)
(* index, no output file and no auto-update flag.                          *)
(***************************************************************************)
\* what a complete run of the read-only tool does to the store
ReadOnlyOps ==
  <<Op("init", NoPart, TRUE)>> \o
  <<Op("open", 0, TRUE), Op("dump", 0, TRUE), Op("close", 0, TRUE)>> \o
  <<Op("open", 1, TRUE), Op("dump", 1, TRUE), Op("close", 1, TRUE)>>

\* the operations of the log with their outcome set to success
Attempted(log) == [k \in 1..Len(log) |-> [log[k] EXCEPT !.ok = TRUE]]

C13_ReadOnlyVariantNeverWrites ==
  ~write_mode =>
    /\ \E revs \in InitialRevisions : slots = InitialSlots(revs)
    /\ outfile = NULL
    /\ arguments.tmpdata = MarkedData
    /\ arguments.which_part = 0
    /\ ~arguments.output_to_file
    /\ ~auto_update
    /\ ~part_specified
    /\ env_current = NULL /\ env_new = NULL
    /\ Len(ops) <= Len(ReadOnlyOps)
    /\ Attempted(ops) = SubSeq(ReadOnlyOps, 1, Len(ops))
    /\ (pc = "exit" /\ result = 0 /\ ops # <<>>) => Attempted(ops) = ReadOnlyOps

C13_Witness ==
  /\ ~write_mode
  /\ pc = "exit"
  /\ result = 0
  /\ HasKey("v")
  /\ Len(ops) = Len(ReadOnlyOps)
  /\ \A k \in 1..Len(ops) : ops[k].op # "close" => ops[k].ok

(***************************************************************************)
(* C14: merging is idempotent.  For every record r of the store (and the   *)
(* zeroed record of file mode) and every staged change c the command line  *)
(* can produce, update_environment applied twice with c gives the same     *)
(* record as applied once, the crc32 field included.  The staged change is *)
(* altered only by parse_opt and by the auto update branch, so it is       *)
(* looked at during intake, after bgenv_get_latest and at the merge.       *)
(***************************************************************************)
C14_MergeIdempotent ==
  pc \in {"argp", "oldest", "update", "file"} =>
    \A r \in MergeTargets :
      LET c    == arguments.tmpdata
          once == update_environment(r, c)
      IN  update_environment(once, c) = once

\* a change that stages a text and a number, about to be merged into a slot
\* whose record it alters
C14_Witness ==
  /\ pc = "update"
  /\ HasKey("k")
  /\ HasKey("w")
  /\ update_environment(env_new.data, arguments.tmpdata) # env_new.data

(***************************************************************************)
(* dump_env: the two texts it prints.                                      *)
(***************************************************************************)
\* str16to8(buffer, src): the low byte of every unit before the first 0 unit
str16to8(units) ==
  LET zeros == {k \in 1..Len(units) : units[k] = 0}
      n == IF zeros = {} THEN Len(units)
           ELSE (CHOOSE k \in zeros : \A z \in zeros : k <= z) - 1
  IN  [k \in 1..n |-> LowByteOfUnit(units[k])]

\* printf("kernel: %s\n", str16to8(buffer, env->kernelfile)): the read is
\* not held back by the end of kernelfile and runs on into kernelparams
DumpedKernel(d) == str16to8(d.kernelfile \o d.kernelparams)

\* printf("kernelargs: %s\n", str16to8(buffer, env->kernelparams)): the
\* characters found in kernelparams
DumpedKernelargs(d) == str16to8(d.kernelparams)

(***************************************************************************)
(* C15: whenever parse_opt returns from case 'k' or case 'a', a text of at *)
(* most ENV_STRING_LENGTH characters (exactly ENV_STRING_LENGTH included)  *)
(* was accepted and every text accepted so far is the text dump_env prints *)
(* for its field of the merged record; a longer text was refused with      *)
(* error 1 and left the staged change as it was.  Texts are ASCII.         *)
(***************************************************************************)
\* the texts given on the command line are the texts printed for record d
TextsRoundTrip(args, d) ==
  LET given(key) == \E j \in 1..Len(args) : args[j][1] = key
      last(key) == args[CHOOSE j \in 1..Len(args) :
                          /\ args[j][1] = key
                          /\ \A j2 \in (j + 1)..Len(args) : args[j2][1] # key][2]
  IN  /\ given("k") => DumpedKernel(d) = last("k")
      /\ given("a") => DumpedKernelargs(d) = last("a")

C15_TextRoundTrip ==
  [][\A key \in {"k", "a"} : \A arg \in KArgs \cup AArgs :
       (/\ write_mode
        /\ pc = "argp"
        /\ argv' = Append(argv, <<key, arg>>)
        /\ pc' # "exit"
        /\ \A j \in 1..Len(argv') : IsAscii(argv'[j][2]))
       => IF Len(arg) <= ENV_STRING_LENGTH
          THEN /\ e' = 0
               /\ pc' = "argp"
               /\ \A r \in MergeTargets :
                    TextsRoundTrip(argv',
                       update_environment(r, arguments'.tmpdata))
          ELSE /\ e' = 1
               /\ pc' = "parsed"
               /\ arguments' = arguments
    ]_vars

(***************************************************************************)
(* The status names: str2ustate and ustate2str applied by parse_opt to the *)
(* argument of -s.                                                         *)
(***************************************************************************)
\* arguments of -s that are not numbers: ok OK oK installed INSTALLED
\* testing TESTING Testing failed FAILED unknown UNKNOWN bogus OKAY tested
\* FAILEDX
StatusNames ==
  {
    <<111, 107>>,
    <<79, 75>>,
    <<111, 75>>,
    <<105, 110, 115, 116, 97, 108, 108, 101, 100>>,
    <<73, 78, 83, 84, 65, 76, 76, 69, 68>>,
    <<116, 101, 115, 116, 105, 110, 103>>,
    <<84, 69, 83, 84, 73, 78, 71>>,
    <<84, 101, 115, 116, 105, 110, 103>>,
    <<102, 97, 105, 108, 101, 100>>,
    <<70, 65, 73, 76, 69, 68>>,
    <<117, 110, 107, 110, 111, 119, 110>>,
    <<85, 78, 75, 78, 79, 87, 78>>,
    <<98, 111, 103, 117, 115>>,
    <<79, 75, 65, 89>>,
    <<116, 101, 115, 116, 101, 100>>,
    <<70, 65, 73, 76, 69, 68, 88>>
  }

\* -s with a status name
ParseStatusName == \E arg \in StatusNames : Option("s", arg)

NextUstate == ParseStatusName \/ ArgpEnd \/ MainAfterParse

SpecUstate == Init /\ [][NextUstate]_vars

\* a and b are the same text when case is ignored
SameName(a, b) ==
  /\ Len(a) = Len(b)
  /\ \A k \in 1..Len(a) : ToUpper(a[k]) = ToUpper(b[k])

\* the code of a status name: the first canonical name in declared order
\* that is the text, case ignored; UNKNOWN when there is none
CodeOfName(str) ==
  LET hits == {c \in USTATE_MIN..USTATE_MAX : SameName(str, ustatemap[c + 1])}
  IN  IF hits = {} THEN USTATE_UNKNOWN
      ELSE CHOOSE c \in hits : \A c2 \in hits : c <= c2

HeldHandles ==
  (IF env # NULL THEN 1 ELSE 0) + (IF env_current # NULL THEN 1 ELSE 0)
    + (IF env_new # NULL THEN 1 ELSE 0)

OpenInLog ==
  Len(SelectSeq(ops, LAMBDA o : o.op = "open" /\ o.ok))
    - Len(SelectSeq(ops, LAMBDA o : o.op = "close"))

C17_OpenSlotsBounded ==
  /\ HeldHandles <= 2
  /\ OpenInLog <= 2
  /\ ~auto_update => (HeldHandles <= 1 /\ OpenInLog <= 1)

\* auto update between bgenv_get_oldest and bgenv_close(env_current)
C17_Witness ==
  /\ pc = "closecurrent"
  /\ auto_update
  /\ HeldHandles = 2
  /\ OpenInLog = 2

(***************************************************************************)
(* C18: a slot is written only after the scan has opened every slot        *)
(* 0 .. ENV_NUM_CONFIG_PARTS - 1 successfully, in index order; when an     *)
(* open of the scan fails, the invocation has ended with code 1 and has    *)
(* selected, merged and written nothing, whichever slot was the target.    *)
(***************************************************************************)
\* place in the store operations of the scan's open of slot p: after
\* bgenv_init and an open and a close for every slot before p
ScanOpenAt(p) == 2 + 2 * p

C18_WriteOnlyAfterFullScan ==
  /\ (\E k \in 1..Len(ops) : ops[k].op = "write") =>
       /\ Len(StoreOps) > ScanOpenAt(ENV_NUM_CONFIG_PARTS - 1)
       /\ StoreOps[1] = Op("init", NoPart, TRUE)
       /\ \A p \in Parts :
            /\ StoreOps[ScanOpenAt(p)] = Op("open", p, TRUE)
            /\ StoreOps[ScanOpenAt(p) + 1].op = "close"
            /\ StoreOps[ScanOpenAt(p) + 1].part = p
  /\ \A p \in Parts :
       (/\ Len(StoreOps) >= ScanOpenAt(p)
        /\ StoreOps[ScanOpenAt(p)] = Op("open", p, FALSE)) =>
          /\ pc = "exit"
          /\ result = 1
          /\ Len(StoreOps) = ScanOpenAt(p)
          /\ env_current = NULL /\ env_new = NULL
          /\ \E revs \in InitialRevisions : slots = InitialSlots(revs)
          /\ \A k \in 1..Len(ops) : ops[k].op # "write"

\* slot 0 named with -p and written after the scan of both slots
C18_Witness ==
  /\ pc = "exit"
  /\ result = 0
  /\ part_specified
  /\ arguments.which_part = 0
  /\ \E k \in 1..Len(ops) : ops[k] = Op("write", 0, TRUE)
  /\ StoreOps[ScanOpenAt(1)] = Op("open", 1, TRUE)
=============================================================================
